---- MODULE Spec2Model ----
(***************************************************************************)
(* rerender.dev: the rule-based analysis engine (server/analyze.js), the   *)
(* POST /analyze handler in front of it and the React front end (App.jsx). *)
(*                                                                         *)
(* Text is a sequence of one-character strings; offsets are 0-based as in  *)
(* JavaScript, so the character at offset p is text[p + 1].                *)
(* The report's timestamp (new Date().toISOString()) is left out: it is    *)
(* the wall clock and no other field depends on it.                        *)
(***************************************************************************)
EXTENDS Integers, Sequences, FiniteSets, TLC

(***************************************************************************)
(* Bounds of the model.                                                    *)
(***************************************************************************)
\* An analysed text is the concatenation of at most MaxFrags fragments.
MaxFrags == 2

(***************************************************************************)
(* JavaScript values: the argument of analyze and the capture groups.      *)
(***************************************************************************)
Str(s)     == [t |-> "string",    s |-> s,    n |-> 0]
Num(n)     == [t |-> "number",    s |-> <<>>, n |-> n]
Bool(b)    == [t |-> "boolean",   s |-> <<>>, n |-> IF b THEN 1 ELSE 0]
Null       == [t |-> "null",      s |-> <<>>, n |-> 0]
Undefined  == [t |-> "undefined", s |-> <<>>, n |-> 0]
EmptyObj   == [t |-> "object",    s |-> <<>>, n |-> 0]

\* typeof v (typeof null is "object")
TypeOf(v) == IF v.t = "null" THEN "object" ELSE v.t

\* Variant: ToBoolean with every string truthy, the empty one included.
Truthy_AnyString(v) ==
  CASE v.t = "string"  -> TRUE
    [] v.t = "number"  -> v.n # 0
    [] v.t = "boolean" -> v.n = 1
    [] v.t = "object"  -> TRUE
    [] OTHER           -> FALSE

\* ToBoolean(v): the operand of !code
Truthy(v) ==
  CASE v.t = "string"  -> Len(v.s) > 0
    [] v.t = "number"  -> v.n # 0
    [] v.t = "boolean" -> v.n = 1
    [] v.t = "object"  -> TRUE
    [] OTHER           -> FALSE

(***************************************************************************)
(* Characters.                                                             *)
(***************************************************************************)
LowerCase == <<"a","b","c","d","e","f","g","h","i","j","k","l","m",
               "n","o","p","q","r","s","t","u","v","w","x","y","z">>
UpperCase == <<"A","B","C","D","E","F","G","H","I","J","K","L","M",
               "N","O","P","Q","R","S","T","U","V","W","X","Y","Z">>
Digits    == {"0","1","2","3","4","5","6","7","8","9"}
Range(f)  == {f[i] : i \in DOMAIN f}
\* \s and the characters String.prototype.trim removes (those TLA+ can write)
WhiteSpace == {" ", "\t", "\n", "\r", "\f"}
\* the characters the dot does not match
LineTerminators == {"\n", "\r"}
\* [a-zA-Z_$] and [a-zA-Z0-9_$]
IdentStart == Range(LowerCase) \cup Range(UpperCase) \cup {"_", "$"}
IdentPart  == IdentStart \cup Digits

\* Canonicalize(ch) of the i flag: letters compare by their upper case
Canon(c) ==
  IF \E i \in DOMAIN LowerCase : LowerCase[i] = c
  THEN UpperCase[CHOOSE i \in DOMAIN LowerCase : LowerCase[i] = c]
  ELSE c

(***************************************************************************)
(* Regular expressions: a pattern is a sequence of nodes.                  *)
(*   "c" one character of a class        "s" greedy star of a class        *)
(*   "a" ordered alternation             "n" negative lookahead (?!...)    *)
(*   "o"/"e" open/close of capture group 1 (the only group the code reads) *)
(***************************************************************************)
In(S)       == [k |-> "c", neg |-> FALSE, set |-> S,  alts |-> <<>>]
NotIn(S)    == [k |-> "c", neg |-> TRUE,  set |-> S,  alts |-> <<>>]
Chr(c)      == In({c})
Star(n)     == [n EXCEPT !.k = "s"]
Alt(as)     == [k |-> "a", neg |-> FALSE, set |-> {}, alts |-> as]
NotAhead(r) == [k |-> "n", neg |-> FALSE, set |-> {}, alts |-> <<r>>]
Open1       == [k |-> "o", neg |-> FALSE, set |-> {}, alts |-> <<>>]
Close1      == [k |-> "e", neg |-> FALSE, set |-> {}, alts |-> <<>>]
Lit(w)      == [i \in 1..Len(w) |-> Chr(w[i])]
Ws          == <<Star(In(WhiteSpace))>>                  \* \s*
Ws1         == <<In(WhiteSpace), Star(In(WhiteSpace))>>  \* \s+
AnyStar     == <<Star(NotIn(LineTerminators))>>          \* .*

RECURSIVE Cat(_)
Cat(parts) == IF parts = <<>> THEN <<>> ELSE Head(parts) \o Cat(Tail(parts))

InClass(node, c, icase) ==
  IF icase
  THEN (Canon(c) \in {Canon(x) : x \in node.set}) # node.neg
  ELSE (c \in node.set) # node.neg

NoMatch == [end |-> -1, cs |-> -1, ce |-> -1]

SetMax(S) == CHOOSE x \in S : \A y \in S : y <= x
SetMin(S) == CHOOSE x \in S : \A y \in S : x <= y

\* How many consecutive characters from offset p are in the class of node.
RunLength(node, text, p, icase) ==
  SetMax({k \in 0..(Len(text) - p) :
            \A j \in 1..k : InClass(node, text[p + j], icase)})

\* The backtracking matcher: the first way (in the engine's priority order)
\* to match the nodes rs against text from offset p; end is the offset after
\* the match, cs/ce the span of capture group 1 (-1: did not participate).
\* A star tries its longest run first and gives characters back one by one.
RECURSIVE MatchAt(_, _, _, _)
MatchAt(rs, text, p, icase) ==
  IF rs = <<>> THEN [end |-> p, cs |-> -1, ce |-> -1]
  ELSE
    LET h    == Head(rs)
        rest == Tail(rs)
        here == p < Len(text) /\ InClass(h, text[p + 1], icase)
    IN CASE h.k = "c" ->
              IF here THEN MatchAt(rest, text, p + 1, icase) ELSE NoMatch
         [] h.k = "s" ->
              \* greedy: the longest run of the class that lets the rest match
              LET run  == RunLength(h, text, p, icase)
                  good == {j \in 0..run :
                             MatchAt(rest, text, p + j, icase).end # -1}
              IN  IF good = {} THEN NoMatch
                  ELSE MatchAt(rest, text, p + SetMax(good), icase)
         [] h.k = "a" ->
              IF h.alts = <<>> THEN NoMatch
              ELSE LET first == MatchAt(Head(h.alts) \o rest, text, p, icase)
                   IN  IF first.end # -1 THEN first
                       ELSE MatchAt(<<Alt(Tail(h.alts))>> \o rest, text, p, icase)
         [] h.k = "n" ->
              IF MatchAt(h.alts[1], text, p, icase).end # -1 THEN NoMatch
              ELSE MatchAt(rest, text, p, icase)
         [] h.k = "o" ->
              LET r == MatchAt(rest, text, p, icase)
              IN  IF r.end = -1 THEN NoMatch ELSE [r EXCEPT !.cs = p]
         [] h.k = "e" ->
              LET r == MatchAt(rest, text, p, icase)
              IN  IF r.end = -1 THEN NoMatch ELSE [r EXCEPT !.ce = p]

\* The leftmost offset >= from at which the pattern matches.
Search(rs, text, from, icase) ==
  LET hits == {i \in from..Len(text) : MatchAt(rs, text, i, icase).end # -1}
  IN  IF hits = {} THEN [index |-> -1, end |-> -1, cs |-> -1, ce |-> -1]
      ELSE LET i == SetMin(hits)
               r == MatchAt(rs, text, i, icase)
           IN  [index |-> i, end |-> r.end, cs |-> r.cs, ce |-> r.ce]

Slice(text, from, to) == SubSeq(text, from + 1, to)   \* text.slice(from, to)

NullMatch == [found |-> FALSE, index |-> -1, text |-> <<>>, g1 |-> Undefined,
              lastIndex |-> 0]

\* Variant: exec that leaves the cursor where it was when nothing matches.
RegexExec_NoReset(re, text, li) ==
  LET from == IF re.global THEN li ELSE 0
      r    == Search(re.nodes, text, from, re.icase)
  IN  IF r.index = -1
      THEN [NullMatch EXCEPT !.lastIndex = li]
      ELSE [found     |-> TRUE,
            index     |-> r.index,
            text      |-> Slice(text, r.index, r.end),
            g1        |-> IF r.cs = -1 \/ r.ce = -1 THEN Undefined
                          ELSE Str(Slice(text, r.cs, r.ce)),
            lastIndex |-> IF re.global THEN r.end ELSE li]

\* RegExp.prototype.exec with the cursor li: the match (null when there is
\* none) and the cursor exec leaves on the regex object.  A global regex
\* starts at li and leaves the end of the match, or 0 on failure.
RegexExec(re, text, li) ==
  LET from == IF re.global THEN li ELSE 0
      r    == Search(re.nodes, text, from, re.icase)
  IN  IF r.index = -1
      THEN [NullMatch EXCEPT !.lastIndex = IF re.global THEN 0 ELSE li]
      ELSE [found     |-> TRUE,
            index     |-> r.index,
            text      |-> Slice(text, r.index, r.end),
            g1        |-> IF r.cs = -1 \/ r.ce = -1 THEN Undefined
                          ELSE Str(Slice(text, r.cs, r.ce)),
            lastIndex |-> IF re.global THEN r.end ELSE li]

\* RegExp.prototype.test
RegexTest(re, text) == RegexExec(re, text, 0).found

\* String.prototype.trim
RECURSIVE TrimStart(_)
TrimStart(s) ==
  IF s # <<>> /\ Head(s) \in WhiteSpace THEN TrimStart(Tail(s)) ELSE s
RECURSIVE TrimEnd(_)
TrimEnd(s) ==
  IF s # <<>> /\ s[Len(s)] \in WhiteSpace
  THEN TrimEnd(SubSeq(s, 1, Len(s) - 1)) ELSE s
Trim(s) == TrimEnd(TrimStart(s))

(***************************************************************************)
(* The rule catalog and the allow-list (module-level constants).  The      *)
(* backticks of A001's fix text are written as apostrophes.                *)
(***************************************************************************)
W_useEffect   == <<"u","s","e","E","f","f","e","c","t">>
W_useMemo     == <<"u","s","e","M","e","m","o">>
W_useCallback == <<"u","s","e","C","a","l","l","b","a","c","k">>
W_useState    == <<"u","s","e","S","t","a","t","e">>
W_on          == <<"o","n">>
W_onClick     == <<"o","n","C","l","i","c","k">>
W_onChange    == <<"o","n","C","h","a","n","g","e">>
W_config      == <<"c","o","n","f","i","g">>
W_options     == <<"o","p","t","i","o","n","s">>
W_data        == <<"d","a","t","a">>
W_items       == <<"i","t","e","m","s">>
W_settings    == <<"s","e","t","t","i","n","g","s">>
W_key         == <<"k","e","y">>
W_index       == <<"i","n","d","e","x">>
W_img         == <<"<","i","m","g">>
W_input       == <<"i","n","p","u","t">>
W_textarea    == <<"t","e","x","t","a","r","e","a">>
W_select      == <<"s","e","l","e","c","t">>
W_alt         == <<"a","l","t","=">>
W_id          == <<"i","d","=">>
W_ariaLabel   == <<"a","r","i","a","-","l","a","b","e","l","=">>
W_ariaLabelledby ==
  <<"a","r","i","a","-","l","a","b","e","l","l","e","d","b","y","=">>
W_ReactMemo   == <<"R","e","a","c","t",".","m","e","m","o">>
W_arrow       == <<"=",">">>

SAFE_USESTATE_INITIALIZERS ==
  { <<"N","u","m","b","e","r">>, <<"S","t","r","i","n","g">>,
    <<"B","o","o","l","e","a","n">>, <<"O","b","j","e","c","t">>,
    <<"A","r","r","a","y">>, <<"D","a","t","e">> }

Regex(nodes, global, icase) ==
  [nodes |-> nodes, global |-> global, icase |-> icase]

\* /useEffect\s*\(\s*\(\s*\)\s*=>\s*\{[^}]*\}\s*\)/g
RE_A001 ==
  Regex(Cat(<< Lit(W_useEffect), Ws, Lit(<<"(">>), Ws, Lit(<<"(">>), Ws,
               Lit(<<")">>), Ws, Lit(W_arrow), Ws, Lit(<<"{">>),
               <<Star(NotIn({"}"}))>>, Lit(<<"}">>), Ws, Lit(<<")">>) >>),
        TRUE, FALSE)

\* /(useMemo|useCallback)\s*\(\s*(\([^\)]*\)\s*=>\s*\{[^}]*\})\s*\)(?!\s*,\s*\[)/g
RE_A002 ==
  Regex(Cat(<< <<Open1, Alt(<<Lit(W_useMemo), Lit(W_useCallback)>>), Close1>>,
               Ws, Lit(<<"(">>), Ws,
               Lit(<<"(">>), <<Star(NotIn({")"}))>>, Lit(<<")">>), Ws,
               Lit(W_arrow), Ws, Lit(<<"{">>), <<Star(NotIn({"}"}))>>,
               Lit(<<"}">>),
               Ws, Lit(<<")">>),
               <<NotAhead(Cat(<<Ws, Lit(<<",">>), Ws, Lit(<<"[">>)>>))>> >>),
        TRUE, FALSE)

\* /useState\(\s*([a-zA-Z_$][a-zA-Z0-9_$]*)\s*\)/g
RE_A003 ==
  Regex(Cat(<< Lit(W_useState), Lit(<<"(">>), Ws,
               <<Open1, In(IdentStart), Star(In(IdentPart)), Close1>>,
               Ws, Lit(<<")">>) >>),
        TRUE, FALSE)

\* /(on[A-Z][^=]*|onClick|onChange)=\s*\{\s*\([^\)]*\)\s*=>\s*[^}]*\}/g
RE_B001 ==
  Regex(Cat(<< <<Open1,
                 Alt(<< Cat(<<Lit(W_on), <<In(Range(UpperCase)),
                                            Star(NotIn({"="}))>> >>),
                        Lit(W_onClick), Lit(W_onChange) >>),
                 Close1>>,
               Lit(<<"=">>), Ws, Lit(<<"{">>), Ws,
               Lit(<<"(">>), <<Star(NotIn({")"}))>>, Lit(<<")">>), Ws,
               Lit(W_arrow), Ws, <<Star(NotIn({"}"}))>>, Lit(<<"}">>) >>),
        TRUE, FALSE)

\* /(config|options|data|items|settings)=\s*\{\s*(\{[^}]*\}|\[[^\]]*\])\s*\}/g
RE_B002 ==
  Regex(Cat(<< <<Open1,
                 Alt(<< Lit(W_config), Lit(W_options), Lit(W_data),
                        Lit(W_items), Lit(W_settings) >>),
                 Close1>>,
               Lit(<<"=">>), Ws, Lit(<<"{">>), Ws,
               <<Alt(<< Cat(<<Lit(<<"{">>), <<Star(NotIn({"}"}))>>,
                              Lit(<<"}">>)>>),
                        Cat(<<Lit(<<"[">>), <<Star(NotIn({"]"}))>>,
                              Lit(<<"]">>)>>) >>)>>,
               Ws, Lit(<<"}">>) >>),
        TRUE, FALSE)

\* Variant: the same pattern without the g flag.
RE_B003_NotGlobal ==
  Regex(Cat(<< Lit(W_key), Ws, Lit(<<"=">>), Ws, Lit(<<"{">>), Ws,
               <<Open1, Alt(<<Lit(W_index), Lit(<<"i">>)>>), Close1>>,
               Ws, Lit(<<"}">>) >>),
        FALSE, FALSE)

\* /key\s*=\s*\{\s*(index|i)\s*\}/g
RE_B003 ==
  Regex(Cat(<< Lit(W_key), Ws, Lit(<<"=">>), Ws, Lit(<<"{">>), Ws,
               <<Open1, Alt(<<Lit(W_index), Lit(<<"i">>)>>), Close1>>,
               Ws, Lit(<<"}">>) >>),
        TRUE, FALSE)

\* /<img\s+(?!.*alt=)/gi
RE_C001 ==
  Regex(Cat(<< Lit(W_img), Ws1,
               <<NotAhead(Cat(<<AnyStar, Lit(W_alt)>>))>> >>),
        TRUE, TRUE)

\* /<(input|textarea|select)\s+(?!.*(id=|aria-label=|aria-labelledby=))/gi
RE_C002 ==
  Regex(Cat(<< Lit(<<"<">>),
               <<Open1,
                 Alt(<<Lit(W_input), Lit(W_textarea), Lit(W_select)>>),
                 Close1>>,
               Ws1,
               <<NotAhead(Cat(<<AnyStar,
                    <<Alt(<<Lit(W_id), Lit(W_ariaLabel),
                            Lit(W_ariaLabelledby)>>)>> >>))>> >>),
        TRUE, TRUE)

\* /React\.memo\s*\(/   (line 138; no flags)
RE_Memo ==
  Regex(Cat(<< Lit(W_ReactMemo), Ws, Lit(<<"(">>) >>), FALSE, FALSE)

Rule(id, type, title, why, fix, severity, regex, requiresMemo, suppress) ==
  [id |-> id, type |-> type, title |-> title, why |-> why, fix |-> fix,
   severity |-> severity, regex |-> regex,
   requiresMemoContext |-> requiresMemo, suppressBuiltIns |-> suppress]

ANALYSIS_RULES == <<
  Rule("A001", "useEffect-missing-deps",
       "Missing dependency array in useEffect",
       "This effect runs after every render, which may cause unnecessary work or unintended behavior.",
       "Add a dependency array ('[]' or '[deps]') to control when the effect runs.",
       "High", RE_A001, FALSE, FALSE),
  Rule("A002", "useMemo-useCallback-missing-deps",
       "useMemo / useCallback missing dependency array",
       "Using these hooks without a dependency array provides no memoization benefit.",
       "Always pass a dependency array. Remove the hook if memoization is unnecessary.",
       "Medium", RE_A002, FALSE, FALSE),
  Rule("A003", "useState-function-reference",
       "useState initialized with function reference",
       "Passing a function reference to useState stores the function itself as state. This is often unintentional.",
       "If you intend to compute an initial value, wrap the call: useState(() => computeValue()).",
       "Low", RE_A003, FALSE, TRUE),
  Rule("B001A", "inline-function-breaks-memoization",
       "Inline function breaks memoization",
       "This inline function is passed to a memoized component. A new function is created on every render, defeating React.memo.",
       "Extract the handler and memoize it using useCallback before passing it to the memoized component.",
       "High", RE_B001, TRUE, FALSE),
  Rule("B001B", "jsx-inline-arrow-function",
       "Inline arrow function in JSX prop (context-dependent)",
       "Inline arrow functions create a new function on every render. This is usually fine, but can cause unnecessary re-renders when passed to memoized or frequently re-rendered components.",
       "If this prop is passed to a memoized or frequently rendered child, consider extracting or memoizing the handler.",
       "Info", RE_B001, FALSE, FALSE),
  Rule("B002", "jsx-inline-object-literal",
       "Inline object or array literal in JSX prop",
       "New object or array references are created on every render, causing unnecessary re-renders.",
       "Move the object/array outside the component or memoize it with useMemo.",
       "Medium", RE_B002, FALSE, FALSE),
  Rule("B003", "jsx-array-index-key",
       "Using array index as key",
       "Using index as key can cause incorrect UI updates when list order changes.",
       "Use a stable, unique identifier from the data instead.",
       "High", RE_B003, FALSE, FALSE),
  Rule("C001", "a11y-missing-alt",
       "Image missing alt attribute",
       "Missing alt text harms accessibility for screen reader users.",
       "Add a meaningful alt attribute or use alt=\"\" for decorative images.",
       "High", RE_C001, FALSE, FALSE),
  Rule("C002", "a11y-missing-label",
       "Form control missing label",
       "Form elements without labels are inaccessible to assistive technologies.",
       "Add a <label>, aria-label, or aria-labelledby.",
       "Medium", RE_C002, FALSE, FALSE) >>

RuleIds == DOMAIN ANALYSIS_RULES

(***************************************************************************)
(* Inputs: the values analyze is called with.                               *)
(***************************************************************************)
Frags == <<
  <<"R","e","a","c","t",".","m","e","m","o","(">>,
  <<"o","n","C","l","i","c","k","=","{","(",")","=",">","x","}">>,
  <<"\n">>,
  <<"u","s","e","S","t","a","t","e","(","N","u","m","b","e","r",")">>,
  <<"u","s","e","S","t","a","t","e","(","d","a","t","e",")">>,
  <<"k","e","y","=","{","\n","i","}">>,
  <<"u","s","e","E","f","f","e","c","t","(","(",")","=",">","{","}",")">> >>

FragSeqs == UNION {[1..k -> Range(Frags)] : k \in 0..MaxFrags}
Texts    == {Cat(fs) : fs \in FragSeqs}

NonStrings == {Null, Undefined, Num(0), Num(42), Bool(FALSE), Bool(TRUE),
               EmptyObj}
Inputs     == {Str(t) : t \in Texts} \cup NonStrings

(***************************************************************************)
(* State.                                                                   *)
(***************************************************************************)
VARIABLES
  \* server/analyze.js
  lastIndex,             \* rule.regex.lastIndex of every rule of the catalog
  pc,                    \* "idle" | "rule" | "exec" | "ret" | "done"
  code,                  \* the argument of the running (or last) call
  hasMemoizedComponent,  \* line 138
  ruleIdx,               \* the forEach position in ANALYSIS_RULES
  match,                 \* line 141
  issues,                \* line 135
  report,                \* the value the last call returned
  kept,                  \* a response the caller kept from an earlier call
  \* rerender-frontend/src/App.jsx
  appCode, appIssues, loading, error,
  net,                   \* the fetch in flight
  analysed               \* the last analysis the page received

engineVars == <<lastIndex, pc, code, hasMemoizedComponent, ruleIdx, match,
                issues, report>>
appVars    == <<appCode, appIssues, loading, error, net, analysed>>
vars       == <<engineVars, kept, appVars>>

NoReport == [status |-> "NoReport"]
NotKept  == [set |-> FALSE, code |-> Undefined, issues |-> <<>>]
NoFetch  == [st |-> "none", code |-> <<>>, ok |-> FALSE, data |-> NoReport]
NotAnalysed == [code |-> <<>>, status |-> "None"]

Init ==
  /\ lastIndex = [r \in RuleIds |-> 0]
  /\ pc = "idle"
  /\ code = Undefined
  /\ hasMemoizedComponent = FALSE
  /\ ruleIdx = 1
  /\ match = NullMatch
  /\ issues = <<>>
  /\ report = NoReport
  /\ kept = NotKept
  /\ appCode = <<>>
  /\ appIssues = <<>>
  /\ loading = FALSE
  /\ error = ""
  /\ net = NoFetch
  /\ analysed = NotAnalysed

(***************************************************************************)
(* analyze(code), server/analyze.js lines 126-193.                          *)
(***************************************************************************)
\* Variant: the validation without its typeof test.
Invalid_NoTypeCheck(v) == ~Truthy(v)

\* line 127: !code || typeof code !== 'string'
Invalid(v) == ~Truthy(v) \/ TypeOf(v) # "string"

\* lines 128-132
ErrorReport == [status |-> "Error",
                error  |-> "Invalid or missing code provided."]

\* Variant: the fact kept in a flag that is only ever raised.
DetectMemo_Sticky(text) == hasMemoizedComponent \/ RegexTest(RE_Memo, text)

\* line 138
DetectMemo(text) == RegexTest(RE_Memo, text)

\* Variant: the gate reads a field no rule has.
Skipped_WrongField(rule, fact) == FALSE /\ ~fact

\* line 145
Skipped(rule, fact) == rule.requiresMemoContext /\ ~fact

\* Variant: the allow-list is asked about the whole match, not the capture.
Suppressed_WholeMatch(rule, m) ==
  /\ rule.id = "A003"
  /\ rule.suppressBuiltIns
  /\ m.text \in SAFE_USESTATE_INITIALIZERS

\* lines 154-158
Suppressed(rule, m) ==
  /\ rule.id = "A003"
  /\ rule.suppressBuiltIns
  /\ m.g1.t = "string"
  /\ m.g1.s \in SAFE_USESTATE_INITIALIZERS

\* Variant: a 0-based line number.
LineNumber_ZeroBased(text, startIndex) ==
  Len(SelectSeq(Slice(text, 0, startIndex), LAMBDA c : c = "\n"))

\* line 163: (code.slice(0, startIndex).match(/\n/g) || []).length + 1
LineNumber(text, startIndex) ==
  Len(SelectSeq(Slice(text, 0, startIndex), LAMBDA c : c = "\n")) + 1

\* lines 150, 162-178
MakeIssue(rule, m, text) ==
  LET matchText  == Trim(m.text)
      startIndex == m.index
  IN  [id |-> rule.id, type |-> rule.type, title |-> rule.title,
       why |-> rule.why, fix |-> rule.fix, severity |-> rule.severity,
       occurrence |-> [lineNumber |-> LineNumber(text, startIndex),
                       snippet    |-> matchText,
                       charStart  |-> startIndex,
                       charEnd    |-> startIndex + Len(matchText)]]

\* line 182
severityRank == [High |-> 3, Medium |-> 2, Low |-> 1, Info |-> 0]

\* Variant: the comparator without its second key.
Compare_SeverityOnly(a, b) ==
  severityRank[b.severity] - severityRank[a.severity]

\* lines 188-191: the comparator; x || y is y when x is 0
Compare(a, b) ==
  LET bySeverity == severityRank[b.severity] - severityRank[a.severity]
  IN  IF bySeverity # 0 THEN bySeverity
      ELSE a.occurrence.lineNumber - b.occurrence.lineNumber

\* Array.prototype.sort (stable since ES2019): insertion of each element
\* behind the elements that do not compare greater than it.
RECURSIVE Sort(_)
Sort(s) ==
  IF Len(s) <= 1 THEN s
  ELSE LET x     == s[Len(s)]
           front == Sort(SubSeq(s, 1, Len(s) - 1))
           k     == Cardinality({i \in 1..Len(front) : Compare(front[i], x) <= 0})
       IN  SubSeq(front, 1, k) \o <<x>> \o SubSeq(front, k + 1, Len(front))

\* Variant: the status test off by one.
StatusOf_OffByOne(n) == IF n > 1 THEN "Issues Found" ELSE "Clean"

\* line 186
StatusOf(n) == IF n # 0 THEN "Issues Found" ELSE "Clean"

\* lines 184-187, 192: the report around the sorted issues
MakeReport(n, sorted) ==
  [status |-> StatusOf(n), totalIssues |-> n, issues |-> sorted]

\* lines 126-138: entry, validation, the memoization fact
AnalyzeEnter(v) ==
  /\ pc = "idle"
  /\ code' = v
  /\ IF Invalid(v)
     THEN /\ report' = ErrorReport
          /\ pc' = "done"
          /\ UNCHANGED <<lastIndex, hasMemoizedComponent, ruleIdx, match,
                         issues>>
     ELSE /\ issues' = <<>>
          /\ hasMemoizedComponent' = DetectMemo(v.s)
          /\ ruleIdx' = 1
          /\ match' = NullMatch
          /\ pc' = "rule"
          /\ report' = NoReport
          /\ UNCHANGED lastIndex

\* the forEach moves on to the next rule, or to the return statement
NextRule ==
  IF ruleIdx < Len(ANALYSIS_RULES)
  THEN ruleIdx' = ruleIdx + 1 /\ pc' = "rule"
  ELSE ruleIdx' = ruleIdx /\ pc' = "ret"

\* lines 140-147: the callback starts on a rule
RuleStart ==
  /\ pc = "rule"
  /\ lastIndex' = [lastIndex EXCEPT ![ruleIdx] = 0]
  /\ match' = NullMatch
  /\ IF Skipped(ANALYSIS_RULES[ruleIdx], hasMemoizedComponent)
     THEN NextRule
     ELSE pc' = "exec" /\ ruleIdx' = ruleIdx
  /\ UNCHANGED <<code, hasMemoizedComponent, issues, report>>

\* Variant: a match whose occurrence is already reported is merged into the
\* issue that reports it.
ExecStep_Merging ==
  /\ pc = "exec"
  /\ match' = RegexExec(ANALYSIS_RULES[ruleIdx].regex, code.s,
                        lastIndex[ruleIdx])
  /\ lastIndex' = [lastIndex EXCEPT ![ruleIdx] = match'.lastIndex]
  /\ IF ~match'.found
     THEN NextRule /\ issues' = issues
     ELSE /\ pc' = "exec" /\ ruleIdx' = ruleIdx
          /\ issues' =
               IF \/ Suppressed(ANALYSIS_RULES[ruleIdx], match')
                  \/ \E k \in 1..Len(issues) :
                        issues[k].occurrence
                          = MakeIssue(ANALYSIS_RULES[ruleIdx], match',
                                      code.s).occurrence
               THEN issues
               ELSE Append(issues, MakeIssue(ANALYSIS_RULES[ruleIdx],
                                             match', code.s))
  /\ UNCHANGED <<code, hasMemoizedComponent, report>>

\* lines 149-179: one evaluation of the while condition and, on a match,
\* one run of the loop body
ExecStep ==
  /\ pc = "exec"
  /\ match' = RegexExec(ANALYSIS_RULES[ruleIdx].regex, code.s,
                        lastIndex[ruleIdx])
  /\ lastIndex' = [lastIndex EXCEPT ![ruleIdx] = match'.lastIndex]
  /\ IF ~match'.found
     THEN NextRule /\ issues' = issues
     ELSE /\ pc' = "exec" /\ ruleIdx' = ruleIdx
          /\ issues' = IF Suppressed(ANALYSIS_RULES[ruleIdx], match')
                       THEN issues
                       ELSE Append(issues, MakeIssue(ANALYSIS_RULES[ruleIdx],
                                                     match', code.s))
  /\ UNCHANGED <<code, hasMemoizedComponent, report>>

\* lines 182-192: sort (in place) and return
Return ==
  /\ pc = "ret"
  /\ issues' = Sort(issues)
  /\ report' = MakeReport(Len(issues), issues')
  /\ pc' = "done"
  /\ UNCHANGED <<lastIndex, code, hasMemoizedComponent, ruleIdx, match>>

Returned == pc = "done"

\* The call's frame is gone once its caller has used the response: the
\* argument and the locals do not outlive the call; the cursors do.
\* hasMemoizedComponent keeps its last value: the next call assigns it
\* before anything reads it.
FrameGone ==
  /\ pc' = "idle"
  /\ code' = Undefined
  /\ hasMemoizedComponent' = hasMemoizedComponent
  /\ ruleIdx' = 1
  /\ match' = NullMatch
  /\ issues' = <<>>
  /\ report' = NoReport
  /\ UNCHANGED lastIndex

(***************************************************************************)
(* A caller of analyze: any sequence of calls with any inputs.  When it is  *)
(* done with a response the caller may keep the issues (of a one-fragment   *)
(* text that had issues) to compare with what a later call with the same    *)
(* input returns.                                                           *)
(***************************************************************************)
Call(v) ==
  /\ AnalyzeEnter(v)
  /\ UNCHANGED <<kept, appVars>>

Step ==
  /\ RuleStart \/ ExecStep \/ Return
  /\ UNCHANGED <<kept, appVars>>

Keepable ==
  /\ report.status = "Issues Found"
  /\ code.s \in Range(Frags)

Release(keep) ==
  /\ Returned
  /\ keep => Keepable
  /\ kept' = IF keep THEN [set |-> TRUE, code |-> code,
                           issues |-> report.issues]
             ELSE kept
  /\ FrameGone
  /\ UNCHANGED appVars

Next ==
  \/ pc = "idle" /\ \E v \in Inputs : Call(v)
  \/ Step
  \/ \E keep \in BOOLEAN : Release(keep)

Spec == Init /\ [][Next]_vars

(***************************************************************************)
(* The page (App.jsx) and the POST /analyze handler (unnamed/part_001).     *)
(***************************************************************************)
\* what the user may type: nothing, a blank line, a clean text, a text with
\* an issue
AppTexts == {<<>>, Frags[3], Frags[4], Frags[6]}

\* App.jsx line 58: onChange={(e) => setCode(e.target.value)}
Edit(t) ==
  /\ t # appCode
  /\ appCode' = t
  /\ UNCHANGED <<appIssues, loading, error, net, analysed, engineVars, kept>>

\* App.jsx lines 13-29, 61-65: a click on the button, up to the first await
Click ==
  /\ ~loading
  /\ IF Trim(appCode) = <<>>
     THEN /\ error' = "Paste some React code first."
          /\ UNCHANGED <<appIssues, loading, net>>
     ELSE /\ loading' = TRUE
          /\ error' = ""
          /\ appIssues' = <<>>
          /\ net' = [st |-> "request", code |-> appCode, ok |-> FALSE,
                     data |-> NoReport]
  /\ UNCHANGED <<appCode, analysed, engineVars, kept>>

\* part_001 lines 17-29: the handler receives the request
ServerReceive ==
  /\ net.st = "request"
  /\ IF ~Truthy(Str(net.code))
     THEN /\ net' = [net EXCEPT
                       !.st = "response", !.ok = FALSE,
                       !.data = [error |-> "Missing \"code\" parameter in the request body.",
                                 expectedFormat |-> "{\"code\": \"...\"}"]]
          /\ UNCHANGED engineVars
     ELSE /\ AnalyzeEnter(Str(net.code))
          /\ net' = [net EXCEPT !.st = "handling"]
  /\ UNCHANGED <<appCode, appIssues, loading, error, analysed, kept>>

\* part_001 lines 29-32: res.json(analysisResult)
ServerRespond ==
  /\ net.st = "handling"
  /\ Returned
  /\ net' = [net EXCEPT !.st = "response", !.ok = TRUE, !.data = report]
  /\ FrameGone
  /\ UNCHANGED <<appCode, appIssues, loading, error, analysed, kept>>

\* App.jsx lines 30-37, 40-42: the response arrives
Receive ==
  /\ net.st = "response"
  /\ LET data   == net.data
         status == IF "status" \in DOMAIN data THEN data.status ELSE "None"
     IN  /\ IF ~net.ok \/ status = "Error"
            THEN /\ error' = IF "error" \in DOMAIN data /\ data.error # ""
                             THEN data.error
                             ELSE "Analysis failed due to a server error."
                 /\ appIssues' = appIssues
            ELSE /\ appIssues' = IF "issues" \in DOMAIN data THEN data.issues
                                 ELSE <<>>
                 /\ error' = error
         /\ analysed' = [code |-> net.code, status |-> status]
  /\ loading' = FALSE
  /\ net' = NoFetch
  /\ UNCHANGED <<appCode, engineVars, kept>>

\* App.jsx lines 38-42: fetch or res.json() rejects
FetchFails ==
  /\ net.st \in {"request", "response"}
  /\ error' = "Failed to connect to the analysis server. Is the backend running on port 5000?"
  /\ loading' = FALSE
  /\ net' = NoFetch
  /\ UNCHANGED <<appCode, appIssues, analysed, engineVars, kept>>

\* App.jsx line 120: the condition under which the clean message is rendered
CleanShown ==
  ~loading /\ error = "" /\ Trim(appCode) # <<>> /\ Len(appIssues) = 0

NextUI ==
  \/ \E t \in AppTexts : Edit(t)
  \/ Click
  \/ ServerReceive
  \/ Step
  \/ ServerRespond
  \/ Receive
  \/ FetchFails

SpecUI == Init /\ [][NextUI]_vars

(***************************************************************************)
(* Properties.                                                              *)
(***************************************************************************)
Scanning     == pc \in {"rule", "exec", "ret"}
ReturnedScan == Returned /\ report.status # "Error"
IsBlank(text) == \A i \in DOMAIN text : text[i] \in WhiteSpace

\* C1: for every input that is null, undefined or not a string, analyze
\* returns a report whose status is Error, whose error field is a non-empty
\* message, and which has no issues field.
C1_NonStringIsError ==
  (Returned /\ code.t # "string") =>
     /\ report.status = "Error"
     /\ "error" \in DOMAIN report
     /\ report.error # ""
     /\ "issues" \notin DOMAIN report

C1_Witness == Returned /\ code = Num(42) /\ report.status = "Error"

\* C2 as claimed: analyze("") returns status Clean with totalIssues = 0 and
\* an empty issues sequence.
C2_EmptyStringIsClean ==
  (Returned /\ code = Str(<<>>)) =>
     /\ report.status = "Clean"
     /\ report.totalIssues = 0
     /\ report.issues = <<>>

\* C2 as amended: analyze("") is rejected like a missing input: status Error,
\* a non-empty error message and no issues field; a non-empty string of
\* white space only is accepted and returns Clean, totalIssues = 0 and an
\* empty issues sequence.
C2_EmptyStringIsError ==
  /\ (Returned /\ code = Str(<<>>)) =>
        /\ report.status = "Error"
        /\ "error" \in DOMAIN report
        /\ report.error # ""
        /\ "issues" \notin DOMAIN report
  /\ (Returned /\ code.t = "string" /\ code.s # <<>> /\ IsBlank(code.s)) =>
        /\ report.status = "Clean"
        /\ report.totalIssues = 0
        /\ report.issues = <<>>

C2_Witness == Returned /\ code = Str(<<>>) /\ report.status = "Error"

\* C3: for every string input that does not take the Error path,
\* totalIssues is the length of the returned issues and status is Clean
\* exactly when that count is zero, Issues Found otherwise.
C3_CountAndStatus ==
  (Returned /\ code.t = "string" /\ report.status # "Error") =>
     /\ report.totalIssues = Len(report.issues)
     /\ (report.status = "Clean") <=> (Len(report.issues) = 0)
     /\ (Len(report.issues) # 0) => report.status = "Issues Found"

C3_Witness ==
  Returned /\ code.t = "string" /\ report.status = "Issues Found"
           /\ report.totalIssues = 2

\* The ordering C4 states: rank High=3, Medium=2, Low=1, Info=0 descending,
\* then lineNumber ascending.
Rank(sev) ==
  CASE sev = "High" -> 3 [] sev = "Medium" -> 2 [] sev = "Low" -> 1
    [] sev = "Info" -> 0
Line(i)        == i.occurrence.lineNumber
Before(a, b)   == \/ Rank(a.severity) > Rank(b.severity)
                  \/ Rank(a.severity) = Rank(b.severity) /\ Line(a) < Line(b)
SameKeys(a, b) == Rank(a.severity) = Rank(b.severity) /\ Line(a) = Line(b)
\* where the k-th element of in stands in the stable sort of in
StablePos(in, k) ==
  1 + Cardinality({j \in 1..Len(in) : Before(in[j], in[k])})
    + Cardinality({j \in 1..(k - 1) : SameKeys(in[j], in[k])})
IsStableSortOf(out, in) ==
  /\ Len(out) = Len(in)
  /\ \A k \in 1..Len(in) : out[StablePos(in, k)] = in[k]
  /\ \A i \in 1..(Len(out) - 1) :
        /\ Rank(out[i].severity) >= Rank(out[i + 1].severity)
        /\ Rank(out[i].severity) = Rank(out[i + 1].severity)
             => Line(out[i]) <= Line(out[i + 1])

\* C4: the returned issues are the stable sort of the issues in evaluation
\* order (the issues pushed when the return statement is reached) under
\* severity rank descending, then lineNumber ascending.
C4_StableSorted ==
  [][(pc = "ret" /\ pc' = "done") => IsStableSortOf(report'.issues, issues)]_vars

RuleIndex(id) == CHOOSE r \in RuleIds : ANALYSIS_RULES[r].id = id

\* the sort moved an issue of a later rule ahead of an equally severe issue
\* of an earlier rule, because of its line
C4_Witness ==
  /\ ReturnedScan
  /\ \E i, j \in 1..Len(report.issues) :
        /\ i < j
        /\ report.issues[i].severity = report.issues[j].severity
        /\ Line(report.issues[i]) < Line(report.issues[j])
        /\ RuleIndex(report.issues[i].id) > RuleIndex(report.issues[j].id)

\* the input holds React.memo, optional white space and an opening parenthesis
HasSignature(text) ==
  \E i \in 0..(Len(text) - Len(W_ReactMemo)) :
     /\ Slice(text, i, i + Len(W_ReactMemo)) = W_ReactMemo
     /\ \E j \in (i + Len(W_ReactMemo))..(Len(text) - 1) :
           /\ text[j + 1] = "("
           /\ \A k \in (i + Len(W_ReactMemo))..(j - 1) :
                 text[k + 1] \in WhiteSpace

WithId(iss, id) == SelectSeq(iss, LAMBDA i : i.id = id)
Occurrences(iss, id) ==
  [k \in 1..Len(WithId(iss, id)) |-> WithId(iss, id)[k].occurrence]

\* C5: the memoization fact is the fact about the whole input from before
\* the first rule to the return; without the signature B001A contributes no
\* issue; with it every match of the pattern (the occurrences of B001B)
\* contributes a B001A issue of type inline-function-breaks-memoization.
C5_Gating ==
  /\ (Scanning \/ ReturnedScan) => hasMemoizedComponent = HasSignature(code.s)
  /\ (Scanning /\ ~HasSignature(code.s)) => WithId(issues, "B001A") = <<>>
  /\ ReturnedScan =>
       IF HasSignature(code.s)
       THEN /\ Occurrences(report.issues, "B001A")
                 = Occurrences(report.issues, "B001B")
            /\ \A k \in 1..Len(report.issues) :
                  report.issues[k].id = "B001A"
                    => report.issues[k].type = "inline-function-breaks-memoization"
       ELSE WithId(report.issues, "B001A") = <<>>

\* the pattern matched (B001B reports it) and the gated rule contributed nothing
C5_Witness ==
  /\ ReturnedScan
  /\ ~HasSignature(code.s)
  /\ WithId(report.issues, "B001B") # <<>>
  /\ WithId(report.issues, "B001A") = <<>>

C5_WitnessMemo ==
  /\ ReturnedScan
  /\ HasSignature(code.s)
  /\ WithId(report.issues, "B001A") # <<>>

AllowList ==
  { <<"N","u","m","b","e","r">>, <<"S","t","r","i","n","g">>,
    <<"B","o","o","l","e","a","n">>, <<"O","b","j","e","c","t">>,
    <<"A","r","r","a","y">>, <<"D","a","t","e">> }
Contains(text, part) ==
  \E i \in 0..(Len(text) - Len(part)) : Slice(text, i, i + Len(part)) = part

\* a run of the loop body: exec found a match
MatchStep == pc = "exec" /\ pc' = "exec" /\ match'.found

\* C6: a match of A003 whose first capture is in the allow-list adds nothing
\* to issues; any other match of A003, and every match of every other rule,
\* adds exactly one issue of that rule at the match, whose snippet holds the
\* captured identifier.
C6_Suppression ==
  [][MatchStep =>
       LET rule == ANALYSIS_RULES[ruleIdx] IN
       IF rule.id = "A003" /\ match'.g1.t = "string" /\ match'.g1.s \in AllowList
       THEN issues' = issues
       ELSE /\ Len(issues') = Len(issues) + 1
            /\ SubSeq(issues', 1, Len(issues)) = issues
            /\ issues'[Len(issues')].id = rule.id
            /\ issues'[Len(issues')].occurrence.charStart = match'.index
            /\ rule.id = "A003" =>
                 Contains(issues'[Len(issues')].occurrence.snippet, match'.g1.s)
    ]_vars

\* useState(Number) was matched and dropped
C6_Witness ==
  /\ pc = "exec"
  /\ ANALYSIS_RULES[ruleIdx].id = "A003"
  /\ match.found
  /\ match.g1.s = <<"N","u","m","b","e","r">>
  /\ issues = <<>>

\* useState(date) was matched and reported
C6_WitnessReported ==
  /\ pc = "exec"
  /\ ANALYSIS_RULES[ruleIdx].id = "A003"
  /\ match.found
  /\ match.g1.s = <<"d","a","t","e">>
  /\ Len(issues) = 1

\* C7: the issues returned for an input are those an earlier call returned
\* for the same input, whatever was analysed in between, and every rule's
\* scan starts at offset 0.
C7_SameIssuesOnReplay ==
  /\ (ReturnedScan /\ kept.set /\ kept.code = code) => report.issues = kept.issues
  /\ (pc = "exec" /\ ~match.found) => lastIndex[ruleIdx] = 0

C7_Witness ==
  /\ ReturnedScan
  /\ kept.set
  /\ kept.code = code
  /\ report.status = "Issues Found"

\* C8: the clean message is displayed only when the most recent analysis the
\* page received was of the text now entered and returned status Clean.
C8_CleanOnlyAfterCleanAnalysis ==
  CleanShown => (analysed.status = "Clean" /\ analysed.code = appCode)

C10_LineNumbers ==
  ReturnedScan =>
    \A k \in 1..Len(report.issues) :
       LET occ == report.issues[k].occurrence IN
       occ.lineNumber
         = 1 + Cardinality({i \in 1..occ.charStart : code.s[i] = "\n"})

\* a match that starts on line 2 and runs into line 3
C10_Witness ==
  /\ ReturnedScan
  /\ \E k \in 1..Len(report.issues) :
        /\ report.issues[k].occurrence.lineNumber = 2
        /\ "\n" \in Range(report.issues[k].occurrence.snippet)

\* the matches a scan of the whole text with a global regex finds, in order
RECURSIVE MatchesFrom(_, _, _)
MatchesFrom(re, text, li) ==
  LET m == RegexExec(re, text, li)
  IN  IF ~m.found THEN <<>>
      ELSE <<m>> \o MatchesFrom(re, text, m.lastIndex)

\* the occurrence of a matched span
SpanOccurrence(m, text) ==
  [lineNumber |-> 1 + Cardinality({i \in 1..m.index : text[i] = "\n"}),
   snippet    |-> Trim(m.text),
   charStart  |-> m.index,
   charEnd    |-> m.index + Len(Trim(m.text))]

\* the matches of a rule that are reported: none of a skipped rule, and of
\* the others those that are not suppressed
Surviving(rule, text, fact) ==
  IF Skipped(rule, fact) THEN <<>>
  ELSE SelectSeq(MatchesFrom(rule.regex, text, 0),
                 LAMBDA m : ~Suppressed(rule, m))

\* the positions of the returned issues of the two inline-function rules
\* that report the span m
ReportsOf(m) ==
  {k \in 1..Len(report.issues) :
      /\ report.issues[k].id \in {"B001A", "B001B"}
      /\ report.issues[k].occurrence = SpanOccurrence(m, code.s)}

\* C11: issues are produced 1:1 from the surviving matches, without merging:
\* each rule has as many issues as surviving matches; with the memoization
\* fact every span of the inline-function pattern has exactly two issues with
\* its occurrence, a High one of B001A and an Info one of B001B; without the
\* fact it has exactly one, of B001B.
C11_NoMerging ==
  ReturnedScan =>
    /\ \A r \in RuleIds :
          Len(WithId(report.issues, ANALYSIS_RULES[r].id))
            = Len(Surviving(ANALYSIS_RULES[r], code.s, HasSignature(code.s)))
    /\ LET spans == MatchesFrom(RE_B001, code.s, 0) IN
       \A n \in 1..Len(spans) :
          LET ks == ReportsOf(spans[n]) IN
          IF HasSignature(code.s)
          THEN /\ Cardinality(ks) = 2
               /\ \E a, b \in ks :
                     /\ report.issues[a].id = "B001A"
                     /\ report.issues[a].severity = "High"
                     /\ report.issues[b].id = "B001B"
                     /\ report.issues[b].severity = "Info"
          ELSE /\ Cardinality(ks) = 1
               /\ \A b \in ks : /\ report.issues[b].id = "B001B"
                                 /\ report.issues[b].severity = "Info"

\* one span reported twice: by B001A as High and by B001B as Info
C11_Witness ==
  /\ ReturnedScan
  /\ hasMemoizedComponent
  /\ \E a, b \in 1..Len(report.issues) :
        /\ report.issues[a].id = "B001A" /\ report.issues[a].severity = "High"
        /\ report.issues[b].id = "B001B" /\ report.issues[b].severity = "Info"
        /\ report.issues[a].occurrence = report.issues[b].occurrence

\* C12: a call leaves the catalog as it found it.  The only thing of the
\* catalog a call writes is a rule's scan cursor, and only the cursor of the
\* rule whose loop is running is ever away from 0: on every return (error,
\* skipped rule, full scan) and between calls every cursor is 0.
C12_CatalogUnchanged ==
  /\ (Returned \/ pc = "idle") => \A r \in RuleIds : lastIndex[r] = 0
  /\ \A r \in RuleIds :
        lastIndex[r] # 0 => (pc = "exec" /\ r = ruleIdx /\ match.found)
  /\ DOMAIN lastIndex = RuleIds

\* a scan that found issues and skipped the gated rule has returned
C12_Witness ==
  /\ Returned
  /\ report.status = "Issues Found"
  /\ ~hasMemoizedComponent
  /\ kept.set
  /\ \A r \in RuleIds : lastIndex[r] = 0

(***************************************************************************)
(* Termination of a call: the engine runs to completion once entered (it   *)
(* is synchronous), which is weak fairness of its steps.                    *)
(***************************************************************************)
FairSpec == Spec /\ WF_vars(Step)
CallTerminates == Scanning ~> Returned

====
